---------------------------- MODULE Spec2Model ----------------------------
(***************************************************************************)
(* A model of install_rail.py: the RAIL installer.  The Installer locates  *)
(* or installs a conda-compatible environment manager, initialises it,     *)
(* checks its version, chooses an environment name, creates the            *)
(* environment, installs packages with pip and finishes.                   *)
(*                                                                         *)
(* Text is modelled as a tuple of one-character strings, a filesystem path *)
(* as a tuple of path components, an environment name as the tuple of its  *)
(* dot-separated segments.  None of a text-valued option is the string     *)
(* "None"; None of a path- or list-valued field is the empty tuple.        *)
(***************************************************************************)
EXTENDS Integers, Sequences, FiniteSets, TLC

None == "None"
NoPath == << >>
NoOptions == << >>

\* ------------------------------------------------------------------ bounds

\* How many environments the system holds before the run.
MaxEnvs == 1
\* How many lines the operator may enter that request_input rejects, per run.
MaxRejected == 1
\* How many fields the versions of the pure version comparison have.
MaxFields == 3

\* How many lines the operator enters at the prompt of request_input alone.
MaxLines == 2

\* ------------------------------------------- the environment-manager registry

\* Path.expanduser: a leading "~" becomes the home directory.
ExpandUser(path) ==
    IF path # NoPath /\ Head(path) = "~" THEN <<"$HOME">> \o Tail(path) ELSE path

\* The activation script set whether or not there is a directory, from the
\* directory as it was given.
ActivationScriptUnexpanded(directory) == directory \o <<"bin", "activate">>

\* The activation script derived from the install directory.
ActivationScriptOf(directory) ==
    IF directory # NoPath THEN ExpandUser(directory) \o <<"bin", "activate">> ELSE NoPath

\* The dataclass with its __post_init__.
EnvironmentManager(name, installable, executable, directory, installer_link, installer_options) ==
    [ name              |-> name,
      installable       |-> installable,
      executable        |-> IF executable = "" THEN name ELSE executable,
      directory         |-> ExpandUser(directory),
      installer_link    |-> installer_link,
      installer_options |-> installer_options,
      activation_script |-> ActivationScriptOf(directory) ]

ENV_MANAGER_INFO ==
    << EnvironmentManager("micromamba", FALSE, "", NoPath, None, NoOptions),
       EnvironmentManager("mamba", TRUE, "", <<"~", "miniforge3">>,
                          "https://github.com/conda-forge/miniforge/releases/latest/download/Miniforge3-{kernel}-{architecture}.sh",
                          <<"-b", "-u", "-p">>),
       EnvironmentManager("miniconda", TRUE, "conda", <<"~", "miniconda3">>,
                          "https://repo.anaconda.com/miniconda/Miniconda3-latest-{kernel}-{architecture}.sh",
                          <<"-b", "-u", "-c", "-p">>),
       EnvironmentManager("anaconda", FALSE, "conda", <<"~", "anaconda3">>, None, NoOptions) >>

Variants == 1 .. Len(ENV_MANAGER_INFO)
\* env_manager holds an index into ENV_MANAGER_INFO; 0 is None.
NoManager == 0

Executables == { ENV_MANAGER_INFO[i].executable : i \in Variants }
ActivationScripts == { ENV_MANAGER_INFO[i].activation_script : i \in Variants } \ { NoPath }

\* The --install-conda choices of the argument parser.
InstallChoices == { "miniconda", "mamba" }

\* ------------------------------------------------------------------- text

Digits == { "0", "1", "2", "3", "4", "5", "6", "7", "8", "9" }
Whitespace == { " ", "\n" }

DigitValue(c) ==
    CASE c = "0" -> 0 [] c = "1" -> 1 [] c = "2" -> 2 [] c = "3" -> 3 [] c = "4" -> 4
      [] c = "5" -> 5 [] c = "6" -> 6 [] c = "7" -> 7 [] c = "8" -> 8 [] c = "9" -> 9

RECURSIVE LStrip(_)
LStrip(s) == IF s # << >> /\ Head(s) \in Whitespace THEN LStrip(Tail(s)) ELSE s

RECURSIVE RStrip(_)
RStrip(s) ==
    IF s # << >> /\ s[Len(s)] \in Whitespace THEN RStrip(SubSeq(s, 1, Len(s) - 1)) ELSE s

\* str.strip()
Strip(s) == RStrip(LStrip(s))

\* str.rindex(c), as a position counted from 1; 0 stands for its ValueError.
RIndex(s, c) ==
    IF \E i \in 1 .. Len(s) : s[i] = c
    THEN CHOOSE i \in 1 .. Len(s) : s[i] = c /\ \A j \in (i + 1) .. Len(s) : s[j] # c
    ELSE 0

\* str.split(sep): the pieces between the separators, empty pieces kept.
RECURSIVE Split(_, _)
Split(s, sep) ==
    IF \E i \in 1 .. Len(s) : s[i] = sep
    THEN LET i == CHOOSE k \in 1 .. Len(s) : s[k] = sep /\ \A j \in 1 .. (k - 1) : s[j] # sep
         IN  <<SubSeq(s, 1, i - 1)>> \o Split(SubSeq(s, i + 1, Len(s)), sep)
    ELSE <<s>>

\* Whether int(piece) returns: surrounding whitespace is ignored, the rest is one or
\* more digits (no sign or underscore is in the alphabet of the model).
IntParses(piece) ==
    LET t == Strip(piece) IN t # << >> /\ \A i \in 1 .. Len(t) : t[i] \in Digits

\* The value of a digit string.
RECURSIVE DecimalValue(_)
DecimalValue(t) ==
    IF t = << >> THEN 0
    ELSE 10 * DecimalValue(SubSeq(t, 1, Len(t) - 1)) + DigitValue(t[Len(t)])

\* int(piece)
IntOf(piece) == DecimalValue(Strip(piece))

\* version_string_to_tuple, where it returns.
VersionStringParses(vstring) ==
    \A i \in 1 .. Len(Split(vstring, ".")) : IntParses(Split(vstring, ".")[i])

version_string_to_tuple(vstring) ==
    LET pieces == Split(vstring, ".") IN [ i \in 1 .. Len(pieces) |-> IntOf(pieces[i]) ]

\* A comparison that also holds of equal tuples: <= written for <.
RECURSIVE TupleLessOrEqual(_, _)
TupleLessOrEqual(a, b) ==
    IF a = << >> THEN TRUE
    ELSE IF b = << >> THEN FALSE
    ELSE IF Head(a) # Head(b) THEN Head(a) < Head(b)
    ELSE TupleLessOrEqual(Tail(a), Tail(b))

\* Python's < on tuples of integers: the first differing item decides; with none, the
\* shorter tuple is the smaller.
RECURSIVE TupleLess(_, _)
TupleLess(a, b) ==
    IF a = << >> THEN b # << >>
    ELSE IF b = << >> THEN FALSE
    ELSE IF Head(a) # Head(b) THEN Head(a) < Head(b)
    ELSE TupleLess(Tail(a), Tail(b))

\* The three lambdas named output_to_version: the text after the last space for
\* conda and mamba, the whole text for micromamba.  "ValueError" when rindex raises.
OutputHasVersion(executable, output) ==
    executable = "micromamba" \/ RIndex(output, " ") # 0

output_to_version(executable, output) ==
    IF executable = "micromamba" THEN output
    ELSE SubSeq(output, RIndex(output, " ") + 1, Len(output))

required_version_string(executable) ==
    IF executable = "micromamba" THEN <<"1", ".", "5", ".", "8">>
    ELSE <<"2", "3", ".", "5", ".", "0">>

\* The order of characters in a version text: "." sorts before every digit.
CharRank(c) == IF c = "." THEN 0 - 1 ELSE DigitValue(c)

\* Python's < on strings.
RECURSIVE TextLess(_, _)
TextLess(a, b) ==
    IF a = << >> THEN b # << >>
    ELSE IF b = << >> THEN FALSE
    ELSE IF Head(a) # Head(b) THEN CharRank(Head(a)) < CharRank(Head(b))
    ELSE TextLess(Tail(a), Tail(b))

\* A comparison of the version texts themselves, without version_string_to_tuple.
OutOfDateAsText(present, required) == TextLess(present, required)

\* The comparison that raises ERROR_ENV_MANAGER_OUT_OF_DATE.
OutOfDate(present, required) ==
    TupleLess(version_string_to_tuple(present), version_string_to_tuple(required))

\* The decision of check_env_manager_version on the captured stdout.
VersionVerdict(executable, stdout) ==
    LET output == Strip(stdout) IN
    IF ~ OutputHasVersion(executable, output) THEN "ValueError"
    ELSE LET present == output_to_version(executable, output) IN
         IF ~ VersionStringParses(present) THEN "ValueError"
         ELSE IF OutOfDate(present, required_version_string(executable))
              THEN "out_of_date"
              ELSE "ok"

\* ------------------------------------------------------------------ state

VARIABLES
    path_execs,                 \* the executables shutil.which resolves
    files,                      \* the paths that exist on disk
    envs,                       \* the names of the environments on the system
    isatty,                     \* sys.stdout.isatty()
    stdin,                      \* the lines the operator enters, for request_input alone
    dry_run,                    \* Installer.dry_run
    env_manager,                \* Installer.env_manager: an index, 0 for None
    env_manager_preinitialized, \* Installer.env_manager_preinitialized
    env_name,                   \* Installer.env_name; << >> while unset
    pc,                         \* the position of the run
    err,                        \* how the process ended
    cmds,                       \* every call of run_cmd so far, in order
    name_to_install,            \* find_env_manager's parameter and local
    to_install,                 \* install_env_manager's parameter: an index
    existing_names,             \* choose_env_name's local
    cli_selection,              \* the command-line value a choosing function decides on
    req,                        \* the request_input call in progress
    todo,                       \* pip_install's commands still to issue
    ver_present,                \* the pure comparison: the present version text
    ver_required,               \* the pure comparison: the required version text
    ver_verdict                 \* the pure comparison: its outcome

environment == <<path_execs, files, envs, isatty, stdin>>
installer == <<dry_run, env_manager, env_manager_preinitialized, env_name>>
locals == <<name_to_install, to_install, existing_names, cli_selection, req, todo>>
version_vars == <<ver_present, ver_required, ver_verdict>>
vars == <<environment, installer, pc, err, cmds, locals, version_vars>>

NoError == [ type |-> "none", return_code |-> 0, info |-> << >> ]
NoRequest == [ caller |-> "none" ]
\* No choosing function is in progress.
NoSelection == [ option |-> "none", value |-> None ]
\* The value of an option as the function that asks for it holds it: env_name of
\* choose_env_name, cli_selection of choose_algorithms and of
\* choose_additional_dependencies.  A list and a name are held as "list" and "name".
Selection(option, value) == [ option |-> option, value |-> value ]

\* RAILInstallationError: the message is printed and the process exits with return_code.
RAILInstallationError(type, return_code, info) ==
    [ type |-> type, return_code |-> return_code, info |-> info ]

\* An exception nothing catches: the interpreter prints a traceback and exits with 1.
Uncaught(exception) ==
    [ type |-> "Uncaught", return_code |-> 1, info |-> <<exception>> ]

Manager == ENV_MANAGER_INFO[env_manager]

\* shutil.which(executable) is not None
InPath(executable) == executable \in path_execs

\* Path.exists()
Exists(path) == path \in files

\* ---------------------------------------------------------------- run_cmd

ReturnCodes == { 0, 1, 127 }
\* What the shell returns when the script to source does not exist.
MissingScriptCodes == { 1, 2 }

\* A command: what it does, the program it invokes, its arguments, and whether it
\* carries the manager's own --dry-run flag.
Command(kind, exe, args, dry_run_flag) ==
    [ kind |-> kind, exe |-> exe, args |-> args, dry_run_flag |-> dry_run_flag ]

\* One call of run_cmd: the command, the activation script sourced before it (NoPath
\* when none), the environment it runs in through "<manager> run --name" (<< >> when
\* none), whether "# " was prepended, the subprocess's return code, and the stdout
\* the caller reads (<< >> when it reads none).
Captured(command, source, in_env, as_comment, returncode, stdout) ==
    [ cmd |-> command, source |-> source, in_env |-> in_env,
      as_comment |-> as_comment, returncode |-> returncode, stdout |-> stdout ]

Call(command, source, in_env, as_comment, returncode) ==
    Captured(command, source, in_env, as_comment, returncode, << >>)

\* The return codes the subprocess of a call can give: a comment does nothing and
\* returns 0; sourcing a script that does not exist fails; anything else is up to
\* the command.
PossibleCodes(source, as_comment) ==
    IF as_comment THEN { 0 }
    ELSE IF source # NoPath /\ ~ Exists(source) THEN MissingScriptCodes
    ELSE ReturnCodes

\* The error with the hint on machine resources appended whatever the code.
ExecutionErrorWithHint(returncode) ==
    RAILInstallationError("ExecutionError", returncode, <<TRUE>>)

\* The error raised without return_code=output.returncode: the default code, 1.
ExecutionErrorDefaultCode(returncode) ==
    RAILInstallationError("ExecutionError", 1, <<returncode # 127>>)

\* The error of a failed command: the hint on machine resources is appended unless
\* the code is 127.
ExecutionError(returncode) ==
    RAILInstallationError("ExecutionError", returncode, <<returncode # 127>>)

\* A run_cmd that returns whatever the return code is.
RunCmdUnchecked(call, next_pc) ==
    /\ cmds' = Append(cmds, call)
    /\ pc' = next_pc
    /\ err' = err

\* run_cmd: echo, run, raise on a return code other than 0.
run_cmd(call, next_pc) ==
    /\ cmds' = Append(cmds, call)
    /\ IF call.returncode = 0
       THEN pc' = next_pc /\ err' = err
       ELSE pc' = "exit" /\ err' = ExecutionError(call.returncode)

\* A dispatch on the search path alone: an executable that is not found is an error,
\* whether or not there is an activation script.
ManagerOffPath == ~ InPath(Manager.executable)

\* run_env_manager_cmd raises when there is no activation script and the executable
\* is not on the search path.
ManagerUnreachable ==
    Manager.activation_script = NoPath /\ ~ InPath(Manager.executable)

FatalConfiguration ==
    /\ pc' = "exit"
    /\ err' = RAILInstallationError("FatalConfiguration", 1, << >>)
    /\ cmds' = cmds

\* run_env_manager_cmd: directly, or after sourcing the activation script.
run_env_manager_cmd(command, in_env, as_comment, next_pc) ==
    IF ManagerUnreachable
    THEN FatalConfiguration
    ELSE \E rc \in PossibleCodes(Manager.activation_script, as_comment) :
            run_cmd(Call(command, Manager.activation_script, in_env, as_comment, rc), next_pc)

\* run_in_env_cmd: "<manager> run --name <env_name> <cmd>" through run_env_manager_cmd.
run_in_env_cmd(command, as_comment, next_pc) ==
    run_env_manager_cmd(command, env_name, as_comment, next_pc)

\* ----------------------------------------------------------------- inputs

\* A word without a dot, as a text of one segment.
Word(w) == <<w>>

\* The environment names of the model: "analysis" and "analysis.v2".
Names == { <<"analysis">>, <<"analysis", "v2">> }

\* The lines an operator enters at a prompt: the empty line, a word that is no
\* option, the options, the names.
EmptyLine == << >>
Lines(options) == { EmptyLine, Word("maybe") } \cup options \cup Names

\* What `conda --version` and `micromamba --version` print, among them texts that
\* are no version.
V_23_4_0 == <<"2", "3", ".", "4", ".", "0">>
V_23_5_0 == <<"2", "3", ".", "5", ".", "0">>
V_23_10_0 == <<"2", "3", ".", "1", "0", ".", "0">>
V_4_12_0 == <<"4", ".", "1", "2", ".", "0">>
V_1_5_8 == <<"1", ".", "5", ".", "8">>
V_1_5_7 == <<"1", ".", "5", ".", "7">>
V_2_1_1 == <<"2", ".", "1", ".", "1">>
V_23_5_0_rc == <<"2", "3", ".", "5", ".", "0", "r", "c", "1">>
CondaSays(version) == <<"c", "o", "n", "d", "a", " ">> \o version \o <<"\n">>
VersionOutputs(executable) ==
    IF executable = "micromamba"
    THEN { V_1_5_8 \o <<"\n">>, V_1_5_7 \o <<"\n">>, V_2_1_1 \o <<"\n">>, << >> }
    ELSE { CondaSays(V_23_4_0), CondaSays(V_23_5_0), CondaSays(V_23_10_0),
           CondaSays(V_4_12_0), CondaSays(V_23_5_0_rc), V_23_5_0 \o <<"\n">>, << >> }

\* -------------------------------------------------------------- detection

\* One pass of the detection loop over variant i, on a search path and a disk.
in_path(on_path, i) == ENV_MANAGER_INFO[i].executable \in on_path

\* A test that takes a variant without an activation script for one whose script
\* exists.
ActivationScriptExistsOrNone(on_disk, i) ==
    \/ ENV_MANAGER_INFO[i].activation_script = NoPath
    \/ ENV_MANAGER_INFO[i].activation_script \in on_disk

activation_script_exists(on_disk, i) ==
    IF ENV_MANAGER_INFO[i].activation_script = NoPath
    THEN FALSE
    ELSE ENV_MANAGER_INFO[i].activation_script \in on_disk

\* The loop without its break: the last detectable variant is the one left selected.
RECURSIVE DetectionLoopNoBreak(_, _, _)
DetectionLoopNoBreak(on_path, on_disk, i) ==
    IF i > Len(ENV_MANAGER_INFO) THEN NoManager
    ELSE LET later == DetectionLoopNoBreak(on_path, on_disk, i + 1) IN
         IF later # NoManager THEN later
         ELSE IF in_path(on_path, i) \/ activation_script_exists(on_disk, i) THEN i
         ELSE NoManager

\* The loop from variant i on: the variant at which it breaks, NoManager when it
\* runs to its end.
RECURSIVE DetectionLoop(_, _, _)
DetectionLoop(on_path, on_disk, i) ==
    IF i > Len(ENV_MANAGER_INFO) THEN NoManager
    ELSE IF in_path(on_path, i) \/ activation_script_exists(on_disk, i) THEN i
    ELSE DetectionLoop(on_path, on_disk, i + 1)

FirstDetected == DetectionLoop(path_execs, files, 1)

\* ------------------------------------------------------------------- Init

InitInstaller ==
    /\ env_manager = NoManager
    /\ env_manager_preinitialized = FALSE
    /\ env_name = << >>
    /\ err = NoError
    /\ cmds = << >>
    /\ name_to_install = None
    /\ to_install = NoManager
    /\ existing_names = { }
    /\ cli_selection = NoSelection
    /\ req = NoRequest
    /\ todo = << >>

\* What the detection loop reads of a search path and a disk: the executables and
\* the activation scripts of the variants up to the one it breaks at.
ReadByDetection(on_path, on_disk) ==
    LET last == DetectionLoop(on_path, on_disk, 1)
        read == IF last = NoManager THEN Variants ELSE 1 .. last
    IN  [ execs   |-> { ENV_MANAGER_INFO[i].executable : i \in read },
          scripts |-> { ENV_MANAGER_INFO[i].activation_script : i \in read } ]

\* The whole run reads the search path and the disk only for the variants the
\* detection loop visits (later on, only for the selected one).  Init lets these
\* differ and leaves what no step reads absent; InitResolve lets everything differ.
InitEnvironment(every) ==
    /\ path_execs \in SUBSET Executables
    /\ files \in SUBSET ActivationScripts
    /\ every \/ /\ path_execs \subseteq ReadByDetection(path_execs, files).execs
                /\ files \subseteq ReadByDetection(path_execs, files).scripts
    /\ envs \in { e \in SUBSET Names : Cardinality(e) <= MaxEnvs }
    \* environments exist only where a manager does
    /\ (path_execs = { } /\ files = { }) => envs = { }
    /\ isatty \in BOOLEAN
    /\ stdin = << >>
    /\ dry_run \in BOOLEAN
    /\ pc = "find_env_manager"
    /\ InitInstaller
    /\ ver_present = << >> /\ ver_required = << >> /\ ver_verdict = "none"

Init == InitEnvironment(FALSE)

InitResolve == InitEnvironment(TRUE)

\* ---------------------------------------------------------- request_input

NonInteractiveInput(prompt) ==
    RAILInstallationError("NonInteractiveInput", 1, <<prompt>>)

\* A request_input that prompts without looking at the terminal.
RequestInputUnchecked(caller, prompt, options, allow_any, validator) ==
    /\ pc' = "request_input"
    /\ err' = err
    /\ req' = [ caller |-> caller, prompt |-> prompt, options |-> options,
                allow_any |-> allow_any, validator |-> validator, rejected |-> 0 ]

\* The start of request_input: it raises unless stdout is a terminal, else it prompts.
request_input(caller, prompt, options, allow_any, validator) ==
    IF ~ isatty
    THEN pc' = "exit" /\ err' = NonInteractiveInput(prompt) /\ req' = req
    ELSE /\ pc' = "request_input"
         /\ err' = err
         /\ req' = [ caller |-> caller, prompt |-> prompt, options |-> options,
                     allow_any |-> allow_any, validator |-> validator, rejected |-> 0 ]

\* Path.stem of a name: the name without its last dot-separated segment, when it has
\* more than one.
Stem(name) == IF Len(name) > 1 THEN SubSeq(name, 1, Len(name) - 1) ELSE name

\* A check on the stems of the names, as existing_names is made of stems.
CheckEnvNameByStem(name, names) == Stem(name) \notin { Stem(n) : n \in names }

check_env_name(name, names) == name \notin names

default_validation(line) ==
    \/ req.allow_any /\ line # EmptyLine
    \/ ~ req.allow_any /\ line \in req.options

extra_validation(line) ==
    req.validator = "none" \/ check_env_name(line, existing_names)

\* The loop ended by either check: `and` written for `or` in `ask`.
AcceptedByEither(line) == default_validation(line) \/ extra_validation(line)

\* The line passes both checks: the loop of request_input ends and returns it.
Accepted(line) == default_validation(line) /\ extra_validation(line)

\* A line that fails a check: request_input asks again.
InputRejected ==
    /\ pc = "request_input"
    /\ req.rejected < MaxRejected
    /\ \E line \in Lines(req.options) :
          /\ ~ Accepted(line)
          /\ req' = [ req EXCEPT !.rejected = @ + 1 ]
    /\ UNCHANGED <<environment, installer, pc, err, cmds, name_to_install, to_install,
                   existing_names, cli_selection, todo, version_vars>>

\* ------------------------------------------------------- find_env_manager

\* env_manager_preinitialized set on every detection, without `if in_path`.
DetectedAtAll == FirstDetected # NoManager

\* The value the loop leaves in env_manager_preinitialized.
DetectedInPath == FirstDetected # NoManager /\ in_path(path_execs, FirstDetected)

\* The variant of a name: [e for e in ENV_MANAGER_INFO if e.name == name][0]
VariantNamed(name) == CHOOSE i \in Variants : ENV_MANAGER_INFO[i].name = name

\* The names of all variants, without `if e.installable`.
EveryName == { Word(ENV_MANAGER_INFO[i].name) : i \in Variants }

InstallableNames == { Word(ENV_MANAGER_INFO[i].name) : i \in { j \in Variants : ENV_MANAGER_INFO[j].installable } }

AlreadyInstalled(requested) ==
    RAILInstallationError("AlreadyInstalled", 1,
        [ to_install |-> requested,
          already_installed |-> ENV_MANAGER_INFO[FirstDetected].executable,
          exists_without_path |-> ~ DetectedInPath,
          activation_script_path |-> ENV_MANAGER_INFO[FirstDetected].activation_script ])

\* The already-installed check made only for a manager found on the search path.
InstallConflictOnPathOnly(selected, requested) ==
    selected # NoManager /\ requested # None /\ in_path(path_execs, selected)

\* The condition under which find_env_manager raises ERROR_ENV_MANAGER_ALREADY_INSTALLED.
InstallConflict(selected, requested) == selected # NoManager /\ requested # None

\* find_env_manager up to its first command or prompt: the detection loop, the
\* already-installed check, and the choice of what to install.
FindEnvManager ==
    /\ pc = "find_env_manager"
    /\ \E requested \in { None } \cup InstallChoices :
          /\ env_manager' = FirstDetected
          /\ env_manager_preinitialized' = DetectedInPath
          /\ \/ /\ InstallConflict(FirstDetected, requested)
                /\ pc' = "exit"
                /\ err' = AlreadyInstalled(requested)
                /\ UNCHANGED <<req, to_install>>
                /\ name_to_install' = requested
             \/ /\ ~ InstallConflict(FirstDetected, requested) /\ FirstDetected # NoManager
                /\ pc' = "setup_env_manager"
                /\ UNCHANGED <<err, req, to_install>>
                /\ name_to_install' = requested
             \/ /\ ~ InstallConflict(FirstDetected, requested)
                /\ FirstDetected = NoManager /\ requested # None
                /\ pc' = "install_env_manager"
                /\ to_install' = VariantNamed(requested)
                /\ UNCHANGED <<err, req>>
                /\ name_to_install' = requested
             \/ /\ ~ InstallConflict(FirstDetected, requested)
                /\ FirstDetected = NoManager /\ requested = None
                /\ request_input("find_env_manager",
                                 "Which Python environment manager should be installed?",
                                 InstallableNames, FALSE, "none")
                /\ UNCHANGED to_install
                /\ name_to_install' = requested
    /\ UNCHANGED <<environment, dry_run, env_name, cmds, existing_names, cli_selection,
                   todo, version_vars>>

\* The operator's answer to "Which Python environment manager should be installed?".
InstallChoiceEntered ==
    /\ pc = "request_input" /\ req.caller = "find_env_manager"
    /\ \E line \in Lines(req.options) :
          /\ Accepted(line)
          /\ name_to_install' = line[1]
          /\ to_install' = VariantNamed(line[1])
    /\ pc' = "install_env_manager"
    /\ req' = NoRequest
    /\ UNCHANGED <<environment, installer, err, cmds, existing_names, cli_selection,
                   todo, version_vars>>

\* ---------------------------------------------------- install_env_manager

installer_dir == ENV_MANAGER_INFO[to_install].directory
\* "<name>-installer.sh" in the directory of the variant
installer_path == installer_dir \o <<"installer.sh">>

\* The installer directory is made, the installer is downloaded.
InstallDownload ==
    /\ pc = "install_env_manager"
    /\ \E rc \in PossibleCodes(NoPath, dry_run), saved \in BOOLEAN :
          /\ run_cmd(Call(Command("fetch", "fetcher", <<ENV_MANAGER_INFO[to_install].installer_link>>, FALSE),
                          NoPath, << >>, dry_run, rc), "install_run")
          \* a download that returns 0 has saved the file; one that fails may have
          /\ (dry_run => ~ saved) /\ (~ dry_run /\ rc = 0 => saved)
          /\ files' = IF dry_run THEN files
                      ELSE files \cup { installer_dir } \cup (IF saved THEN { installer_path } ELSE { })
    /\ UNCHANGED <<path_execs, envs, isatty, stdin, installer, locals, version_vars>>

\* An install step that removes the installer whether or not it ran: the unlink in
\* a `finally`.
InstallRunCleaningUp ==
    /\ pc = "install_run"
    /\ \E rc \in PossibleCodes(NoPath, dry_run) :
          /\ run_cmd(Call(Command("installer", "bash", ENV_MANAGER_INFO[to_install].installer_options, FALSE),
                          NoPath, << >>, dry_run, rc), "setup_env_manager")
          /\ env_manager' = IF rc = 0 THEN to_install ELSE env_manager
          /\ files' = IF dry_run THEN files
                      ELSE (IF rc = 0
                            THEN files \cup { ENV_MANAGER_INFO[to_install].activation_script }
                            ELSE files) \ { installer_path }
    /\ UNCHANGED <<path_execs, envs, isatty, stdin, dry_run, env_manager_preinitialized, env_name,
                   locals, version_vars>>

\* An install step that also marks the manager it installed as initialized.
InstallRunPreinitialized ==
    /\ pc = "install_run"
    /\ \E rc \in PossibleCodes(NoPath, dry_run) :
          /\ run_cmd(Call(Command("installer", "bash", ENV_MANAGER_INFO[to_install].installer_options, FALSE),
                          NoPath, << >>, dry_run, rc), "setup_env_manager")
          /\ IF rc = 0
             THEN /\ env_manager' = to_install
                  /\ env_manager_preinitialized' = TRUE
                  /\ files' = IF dry_run THEN files
                              ELSE (files \cup { ENV_MANAGER_INFO[to_install].activation_script })
                                   \ { installer_path }
             ELSE UNCHANGED <<env_manager, env_manager_preinitialized, files>>
    /\ UNCHANGED <<path_execs, envs, isatty, stdin, dry_run, env_name, locals, version_vars>>

\* The installer is run; then the installer is removed and env_manager is set.
InstallRun ==
    /\ pc = "install_run"
    /\ \E rc \in PossibleCodes(NoPath, dry_run) :
          /\ run_cmd(Call(Command("installer", "bash", ENV_MANAGER_INFO[to_install].installer_options, FALSE),
                          NoPath, << >>, dry_run, rc), "setup_env_manager")
          /\ IF rc = 0
             THEN /\ env_manager' = to_install
                  /\ files' = IF dry_run THEN files
                              ELSE (files \cup { ENV_MANAGER_INFO[to_install].activation_script })
                                   \ { installer_path }
             ELSE UNCHANGED <<env_manager, files>>
    /\ UNCHANGED <<path_execs, envs, isatty, stdin, dry_run, env_manager_preinitialized, env_name,
                   locals, version_vars>>

\* ------------------------------------------------------ setup_env_manager

TosChannels == <<"https://repo.anaconda.com/pkgs/main", "https://repo.anaconda.com/pkgs/r">>

TosAccept(channel) == Command("tos accept", "conda", <<"--override-channels", "--channel", channel>>, FALSE)

\* setup_env_manager up to and with its first command.
SetupEnvManager ==
    /\ pc = "setup_env_manager"
    /\ \/ /\ Manager.executable = "conda"
          /\ run_env_manager_cmd(TosAccept(TosChannels[1]), << >>, dry_run, "setup_env_manager_2")
       \/ /\ Manager.executable = "mamba"
          /\ \E shell_is_set \in BOOLEAN :
                IF shell_is_set
                THEN run_env_manager_cmd(
                         Command("shell init", "mamba", <<"--shell", "$SHELL">>,
                                 dry_run /\ env_manager_preinitialized),
                         << >>, dry_run /\ ~ env_manager_preinitialized,
                         "check_env_manager_version")
                ELSE pc' = "exit" /\ err' = Uncaught("KeyError") /\ cmds' = cmds
       \/ /\ Manager.executable = "micromamba"
          /\ pc' = "check_env_manager_version"
          /\ UNCHANGED <<err, cmds>>
    /\ UNCHANGED <<environment, installer, locals, version_vars>>

\* The second channel of the loop over the terms-of-service channels.
SetupEnvManagerSecondChannel ==
    /\ pc = "setup_env_manager_2"
    /\ run_env_manager_cmd(TosAccept(TosChannels[2]), << >>, dry_run, "check_env_manager_version")
    /\ UNCHANGED <<environment, installer, locals, version_vars>>

\* ---------------------------------------------- check_env_manager_version

\* fake_version without its `not`.
FakeVersionWhenPreinitialized == dry_run /\ env_manager_preinitialized

fake_version == dry_run /\ ~ env_manager_preinitialized

version_cmd ==
    IF Manager.executable = "micromamba"
    THEN Command("--version", "micromamba", << >>, FALSE)
    ELSE Command("--version", "conda", << >>, FALSE)

OutOfDateError(present) ==
    RAILInstallationError("OutOfDate", 1,
        [ env_manager |-> Manager.executable, present |-> present,
          required |-> required_version_string(Manager.executable) ])

\* The version command is run; a simulated check returns at once.
CheckEnvManagerVersion ==
    /\ pc = "check_env_manager_version"
    /\ IF ManagerUnreachable
       THEN FatalConfiguration
       ELSE \E rc \in PossibleCodes(Manager.activation_script, fake_version) :
            \E stdout \in IF rc = 0 /\ ~ fake_version
                           THEN VersionOutputs(version_cmd.exe) ELSE { << >> } :
               run_cmd(Captured(version_cmd, Manager.activation_script, << >>, fake_version,
                                rc, stdout),
                       IF fake_version THEN "choose_env_name" ELSE "compare_version")
    /\ UNCHANGED <<environment, installer, name_to_install, to_install, existing_names, cli_selection,
                   req, todo, version_vars>>

\* The captured output is turned into a version and compared with the required one.
version_result == cmds[Len(cmds)]

\* A check that reads the version and goes on whatever it is.
CompareVersionUnchecked ==
    /\ pc = "compare_version"
    /\ pc' = "choose_env_name"
    /\ err' = err
    /\ UNCHANGED <<environment, installer, cmds, name_to_install, to_install,
                   existing_names, cli_selection, req, todo, version_vars>>

CompareVersion ==
    /\ pc = "compare_version"
    /\ LET verdict == VersionVerdict(Manager.executable, version_result.stdout) IN
          \/ /\ verdict = "ok"
             /\ pc' = "choose_env_name"
             /\ err' = err
          \/ /\ verdict = "out_of_date"
             /\ pc' = "exit"
             /\ err' = OutOfDateError(output_to_version(Manager.executable,
                                                       Strip(version_result.stdout)))
          \/ /\ verdict = "ValueError"
             /\ pc' = "exit"
             /\ err' = Uncaught("ValueError")
    /\ UNCHANGED <<environment, installer, cmds, name_to_install, to_install,
                   existing_names, cli_selection, req, todo, version_vars>>

\* -------------------------------------------------------- choose_env_name

\* The prefix of an environment and the prefix of the base installation, as
\* `env list --json` and `info --base --json` report them.
EnvPrefix(name) == [ parent |-> "envs", name |-> name ]
BasePrefix == [ parent |-> "", name |-> <<"base">> ]

\* What `env list --json` lists under "envs": the base installation and every
\* environment.
ListedPrefixes == { BasePrefix } \cup { EnvPrefix(n) : n \in envs }

\* existing_names, from the listed prefixes and the base prefix.
ExistingNames(existing_prefixes, base_prefix) ==
    { Stem(e.name) : e \in { x \in existing_prefixes : x # base_prefix } }

NameConflict(name) == RAILInstallationError("NameConflict", 1, <<name>>)

\* The end of choose_env_name: a supplied name is checked against `names`, or the
\* operator is asked for one.
ChooseAmong(names) ==
    \E supplied \in BOOLEAN, name \in Names :
       /\ IF supplied
          THEN /\ req' = req
               /\ existing_names' = existing_names
               /\ cli_selection' = cli_selection
               /\ IF check_env_name(name, names)
                  THEN env_name' = name /\ pc' = "create_env" /\ err' = err
                  ELSE env_name' = env_name /\ pc' = "exit" /\ err' = NameConflict(name)
          ELSE /\ env_name' = env_name
               /\ existing_names' = names
               /\ cli_selection' = Selection("--env-name", None)
               /\ request_input("choose_env_name",
                                "Name of new virtual environment to install RAIL in:",
                                { }, TRUE, "check_env_name")

\* choose_env_name up to its first command; without one, to its end.
ChooseEnvName ==
    /\ pc = "choose_env_name"
    /\ IF env_manager_preinitialized
       THEN /\ \E rc \in PossibleCodes(NoPath, FALSE), parses \in BOOLEAN :
                  /\ cmds' = Append(cmds, Call(Command("env list --json", Manager.executable, << >>, FALSE),
                                               NoPath, << >>, FALSE, rc))
                  /\ IF rc # 0 THEN pc' = "exit" /\ err' = ExecutionError(rc)
                     ELSE IF ~ parses THEN pc' = "exit" /\ err' = Uncaught("JSONDecodeError")
                     ELSE pc' = "choose_env_name_base" /\ err' = err
            /\ UNCHANGED <<env_name, existing_names, cli_selection, req>>
       ELSE ChooseAmong({ }) /\ cmds' = cmds
    /\ UNCHANGED <<environment, dry_run, env_manager, env_manager_preinitialized,
                   name_to_install, to_install, todo, version_vars>>

\* The base prefix is asked for, the existing names are worked out, the name is chosen.
ChooseEnvNameBase ==
    /\ pc = "choose_env_name_base"
    /\ \E rc \in PossibleCodes(NoPath, FALSE), parses \in BOOLEAN :
          /\ cmds' = Append(cmds, Call(Command("info --base --json", Manager.executable, << >>, FALSE),
                                       NoPath, << >>, FALSE, rc))
          /\ IF rc # 0
             THEN pc' = "exit" /\ err' = ExecutionError(rc) /\ UNCHANGED <<env_name, existing_names, cli_selection, req>>
             ELSE IF ~ parses
             THEN pc' = "exit" /\ err' = Uncaught("JSONDecodeError") /\ UNCHANGED <<env_name, existing_names, cli_selection, req>>
             ELSE ChooseAmong(ExistingNames(ListedPrefixes, BasePrefix))
    /\ UNCHANGED <<environment, dry_run, env_manager, env_manager_preinitialized,
                   name_to_install, to_install, todo, version_vars>>

\* The operator's answer to "Name of new virtual environment".
EnvNameEntered ==
    /\ pc = "request_input" /\ req.caller = "choose_env_name"
    /\ \E line \in Lines(req.options) :
          /\ Accepted(line)
          /\ env_name' = line
    /\ pc' = "create_env"
    /\ req' = NoRequest
    /\ existing_names' = { }
    /\ cli_selection' = NoSelection
    /\ UNCHANGED <<environment, dry_run, env_manager, env_manager_preinitialized, err, cmds,
                   name_to_install, to_install, todo, version_vars>>

\* ------------------------------------------------------------- create_env

\* Whether a call changes the system when it returns 0: it is not a comment and
\* does not carry the manager's --dry-run flag.
Effective(call) == ~ call.as_comment /\ ~ call.cmd.dry_run_flag /\ call.returncode = 0

CreateEnv ==
    /\ pc = "create_env"
    /\ run_env_manager_cmd(
           Command("env create", Manager.executable, env_name, dry_run /\ env_manager_preinitialized),
           << >>, dry_run /\ ~ env_manager_preinitialized, "pip_install")
    /\ envs' = IF pc' = "pip_install" /\ ~ dry_run THEN envs \cup { env_name } ELSE envs
    /\ UNCHANGED <<path_execs, files, isatty, stdin, installer, locals, version_vars>>

\* ------------------------------------------------------------ pip_install

EXTRA_RAIL_PACKAGES ==
    << "pz-rail-astro-tools", "pz-rail-bpz", "pz-rail-cmnn", "pz-rail-dnf", "pz-rail-dsps",
       "pz-rail-flexzboost", "pz-rail-fsps", "pz-rail-gpz-v1", "pz-rail-pzflow",
       "pz-rail-sklearn", "pz-rail-som", "pz-rail-yaw", "pz-rail-lephare" >>

\* choose_additional_dependencies' packages
DevtoolPackages == <<"jupyter", "seaborn", "corner", "matplotlib">>

\* The packages the command line names, and the operator accepts, one by one;
\* "all" and "none" cover the whole list and the empty one.
SelectablePackages == { "pz-rail-bpz", "pz-rail-yaw" }

\* The lists --rail-packages gives: one or two of them, in any order, repeats allowed.
PackageLists == UNION { [1 .. k -> SelectablePackages] : k \in 1 .. 2 }

\* rail_selection as check_algorithms_selection returns it: None, "all", "none" or a list.
RailSelections ==
    { [ kind |-> k, list |-> << >> ] : k \in { None, "all", "none" } }
    \cup { [ kind |-> "list", list |-> l ] : l \in PackageLists }

DevtoolSelections == { None, "yes", "no" }

pip_cmd(packages) == Command("pip install", "pip", packages, FALSE)

\* The developer tooling installed like the RAIL packages: one command for each.
PipCommandsOneByOne(grouped_packages, rail_packages) ==
    [ i \in 1 .. Len(grouped_packages) |-> pip_cmd(<<grouped_packages[i]>>) ]
    \o [ i \in 1 .. Len(rail_packages) |-> pip_cmd(<<rail_packages[i]>>) ]

\* The commands of pip_install after ensurepip: the developer tooling in one
\* command when selected, then pz-rail and each selected package on its own.
PipCommands(grouped_packages, rail_packages) ==
    (IF Len(grouped_packages) > 0 THEN <<pip_cmd(grouped_packages)>> ELSE << >>)
    \o [ i \in 1 .. Len(rail_packages) |-> pip_cmd(<<rail_packages[i]>>) ]

NoTodo == << >>

\* choose_algorithms returns `extras`: rail_packages is set, and
\* choose_additional_dependencies is next.
AlgorithmsChosen(extras) ==
    /\ todo' = [ rail_packages |-> <<"pz-rail">> \o extras, asked |-> 0 ]
    /\ pc' = "choose_additional_dependencies"
    /\ err' = err
    /\ req' = NoRequest
    /\ cli_selection' = NoSelection

\* The prompt for one package of the list comprehension of choose_algorithms;
\* cli_selection holds the answer to the first prompt, "select".
AskAlgorithm(index, selected) ==
    /\ todo' = [ rail_packages |-> selected, asked |-> index ]
    /\ cli_selection' = Selection("--rail-packages", "select")
    /\ request_input("choose_algorithms.select", "Install {algo}?",
                     { Word("y"), Word("n") }, FALSE, "none")

\* pip_install up to the first prompt of choose_algorithms; without one, to its end.
PipInstall ==
    /\ pc = "pip_install"
    /\ \E rail_selection \in RailSelections :
          CASE rail_selection.kind = None ->
                  /\ request_input("choose_algorithms", "Which algorithms should be installed?",
                                   { Word("all"), Word("none"), Word("select") }, FALSE, "none")
                  /\ todo' = todo
                  /\ cli_selection' = Selection("--rail-packages", rail_selection.kind)
            [] rail_selection.kind = "all" -> AlgorithmsChosen(EXTRA_RAIL_PACKAGES)
            [] rail_selection.kind = "none" -> AlgorithmsChosen(<< >>)
            [] rail_selection.kind = "list" -> AlgorithmsChosen(rail_selection.list)
    /\ UNCHANGED <<environment, installer, cmds, name_to_install, to_install, existing_names, version_vars>>

\* The operator's answer to "Which algorithms should be installed?".
AlgorithmsEntered ==
    /\ pc = "request_input" /\ req.caller = "choose_algorithms"
    /\ \E line \in Lines(req.options) :
          /\ Accepted(line)
          /\ CASE line = Word("all") -> AlgorithmsChosen(EXTRA_RAIL_PACKAGES)
               [] line = Word("none") -> AlgorithmsChosen(<< >>)
               [] OTHER -> AskAlgorithm(1, << >>)
    /\ UNCHANGED <<environment, installer, cmds, name_to_install, to_install, existing_names, version_vars>>

\* The operator's answer to "Install {algo}?" for one package.
AlgorithmAnswered ==
    /\ pc = "request_input" /\ req.caller = "choose_algorithms.select"
    /\ \E line \in Lines(req.options) :
          /\ Accepted(line)
          /\ line = Word("y") => EXTRA_RAIL_PACKAGES[todo.asked] \in SelectablePackages
          /\ LET selected == IF line = Word("y")
                             THEN Append(todo.rail_packages, EXTRA_RAIL_PACKAGES[todo.asked])
                             ELSE todo.rail_packages
             IN  IF todo.asked < Len(EXTRA_RAIL_PACKAGES)
                 THEN AskAlgorithm(todo.asked + 1, selected)
                 ELSE AlgorithmsChosen(selected)
    /\ UNCHANGED <<environment, installer, cmds, name_to_install, to_install, existing_names, version_vars>>

\* choose_additional_dependencies returns `grouped_packages`: the commands of
\* pip_install are known, ensurepip is next.
DependenciesChosen(grouped_packages) ==
    /\ todo' = PipCommands(grouped_packages, todo.rail_packages)
    /\ pc' = "ensurepip"
    /\ err' = err
    /\ req' = NoRequest
    /\ cli_selection' = NoSelection

\* A condition that asks whenever the command line did not say "yes".
AsksUnlessYes(selection) == selection # "yes"

\* Whether choose_additional_dependencies reaches its request_input: the command
\* line did not say "yes", and said nothing.
AsksForDependencies(selection) == selection # "yes" /\ selection = None

\* choose_additional_dependencies up to its prompt; without one, to its end.
ChooseAdditionalDependencies ==
    /\ pc = "choose_additional_dependencies"
    /\ \E devtool_selection \in DevtoolSelections :
          IF devtool_selection = "yes" THEN DependenciesChosen(DevtoolPackages)
          ELSE IF AsksForDependencies(devtool_selection)
          THEN /\ request_input("choose_additional_dependencies", "Install additional packages?",
                                { Word("y"), Word("n") }, FALSE, "none")
               /\ todo' = todo
               /\ cli_selection' = Selection("--install-devtools", devtool_selection)
          ELSE DependenciesChosen(<< >>)
    /\ UNCHANGED <<environment, installer, cmds, name_to_install, to_install, existing_names, version_vars>>

\* The operator's answer to "Install additional packages?".
DependenciesAnswered ==
    /\ pc = "request_input" /\ req.caller = "choose_additional_dependencies"
    /\ \E line \in Lines(req.options) :
          /\ Accepted(line)
          /\ DependenciesChosen(IF line = Word("y") THEN DevtoolPackages ELSE << >>)
    /\ UNCHANGED <<environment, installer, cmds, name_to_install, to_install, existing_names, version_vars>>

\* python -m ensurepip --upgrade
EnsurePip ==
    /\ pc = "ensurepip"
    /\ run_in_env_cmd(Command("ensurepip", "python", <<"-m", "ensurepip", "--upgrade">>, FALSE),
                      dry_run, "pip_install_package")
    /\ UNCHANGED <<environment, installer, locals, version_vars>>

\* pip_install_package, once for each command of pip_install.
PipInstallPackage ==
    /\ pc = "pip_install_package"
    /\ run_in_env_cmd(Head(todo), dry_run,
                      IF Len(todo) > 1 THEN "pip_install_package" ELSE "post_install")
    /\ todo' = IF pc' = "exit" THEN todo ELSE Tail(todo)
    /\ UNCHANGED <<environment, installer, name_to_install, to_install, existing_names, cli_selection, req, version_vars>>

\* ----------------------------------------------------------- post_install

\* post_install up to its first command; without --clean, to its end.
PostInstall ==
    /\ pc = "post_install"
    /\ \E clean \in BOOLEAN :
          IF clean
          THEN run_in_env_cmd(Command("conda clean", "conda", <<"--all", "--yes">>, FALSE),
                              FALSE, "post_install_purge")
          ELSE pc' = "done" /\ UNCHANGED <<err, cmds>>
    /\ UNCHANGED <<environment, installer, locals, version_vars>>

\* pip cache purge, and the closing message.
PostInstallPurge ==
    /\ pc = "post_install_purge"
    /\ run_in_env_cmd(Command("pip cache purge", "pip", << >>, FALSE), FALSE, "done")
    /\ UNCHANGED <<environment, installer, locals, version_vars>>

\* ------------------------------------------------------------------- main

\* The errors raised before the Installer is constructed.  argparse prints the usage
\* and the problem, and exits with 2.
ArgumentError == RAILInstallationError("ArgumentError", 2, << >>)
UnsupportedPlatform == RAILInstallationError("UnsupportedPlatform", 1, << >>)
MissingPrerequisites == RAILInstallationError("MissingPrerequisites", 127, << >>)
NoClang(version_command) == RAILInstallationError("NoClang", 1, <<version_command>>)
InvalidSelection == RAILInstallationError("InvalidSelection", 1, << >>)

\* The compilers whose version check_requirements asks for: gcc and g++, or what CC
\* and CXX name.
Compilers == <<"CC", "CXX">>

CompilerVersion(compiler) == Command("compiler --version", compiler, << >>, FALSE)

\* parse_args and check_uname.
Main ==
    /\ pc = "main"
    /\ \E arguments_parse \in BOOLEAN, supported \in BOOLEAN :
          IF ~ arguments_parse THEN pc' = "exit" /\ err' = ArgumentError
          ELSE IF ~ supported THEN pc' = "exit" /\ err' = UnsupportedPlatform
          ELSE pc' = "check_requirements" /\ err' = err
    /\ UNCHANGED <<environment, installer, cmds, locals, version_vars>>

\* One compiler of check_requirements' loop: its version is asked for and searched
\* for "clang".
CheckCompiler(compiler, next_pc) ==
    \E rc \in PossibleCodes(NoPath, FALSE), clang \in BOOLEAN :
       /\ cmds' = Append(cmds, Call(CompilerVersion(compiler), NoPath, << >>, FALSE, rc))
       /\ IF rc # 0 THEN pc' = "exit" /\ err' = ExecutionError(rc)
          ELSE IF clang THEN pc' = "exit" /\ err' = NoClang(compiler)
          ELSE pc' = next_pc /\ err' = err

\* check_requirements up to and with its first command.
CheckRequirements ==
    /\ pc = "check_requirements"
    /\ \E missing \in BOOLEAN :
          IF missing
          THEN pc' = "exit" /\ err' = MissingPrerequisites /\ cmds' = cmds
          ELSE CheckCompiler(Compilers[1], "check_requirements_2")
    /\ UNCHANGED <<environment, installer, locals, version_vars>>

\* The second compiler; check_requirements returns the fetcher.
CheckRequirementsSecondCompiler ==
    /\ pc = "check_requirements_2"
    /\ CheckCompiler(Compilers[2], "check_algorithms_selection")
    /\ UNCHANGED <<environment, installer, locals, version_vars>>

\* check_algorithms_selection, and the construction of the Installer.
CheckAlgorithmsSelection ==
    /\ pc = "check_algorithms_selection"
    /\ \E valid \in BOOLEAN :
          IF valid THEN pc' = "find_env_manager" /\ err' = err
          ELSE pc' = "exit" /\ err' = InvalidSelection
    /\ UNCHANGED <<environment, installer, cmds, locals, version_vars>>

\* The positions of main before Installer.run.
PreRunSteps == { "main", "check_requirements", "check_requirements_2",
                 "check_algorithms_selection" }

\* The positions inside the try block of Installer.run.
RunSteps ==
    { "find_env_manager", "request_input", "install_env_manager", "install_run",
      "setup_env_manager", "setup_env_manager_2", "check_env_manager_version",
      "compare_version", "choose_env_name", "choose_env_name_base", "create_env",
      "pip_install", "choose_additional_dependencies", "ensurepip",
      "pip_install_package", "post_install", "post_install_purge" }

\* A try block around the first call only.
InTryOfFirstCall(position) ==
    position \in { "find_env_manager", "install_env_manager", "install_run",
                   "setup_env_manager", "setup_env_manager_2",
                   "check_env_manager_version", "compare_version" }

\* Whether a KeyboardInterrupt raised at a position reaches the except clause of
\* Installer.run.
InTry(position) == position \in RunSteps

\* "Exit cleanly" taken as a return code of 0.
AbortingWithZero == RAILInstallationError("Aborting", 0, << >>)

\* The error of the except clause.
Aborting == RAILInstallationError("Aborting", 1, << >>)

\* A KeyboardInterrupt nothing catches: the interpreter prints a traceback and ends
\* the process by SIGINT, which a shell reports as 130.
Interrupted == [ type |-> "Uncaught", return_code |-> 130, info |-> <<"KeyboardInterrupt">> ]

\* Ctrl-C while the program runs.
KeyboardInterrupt ==
    /\ pc \in PreRunSteps \cup RunSteps
    /\ pc' = "exit"
    /\ err' = IF InTry(pc) THEN Aborting ELSE Interrupted
    /\ UNCHANGED <<environment, installer, cmds, locals, version_vars>>

\* ------------------------------------------------------------------- Spec

Next ==
    \/ FindEnvManager
    \/ InstallChoiceEntered
    \/ InputRejected
    \/ InstallDownload
    \/ InstallRun
    \/ SetupEnvManager
    \/ SetupEnvManagerSecondChannel
    \/ CheckEnvManagerVersion
    \/ CompareVersion
    \/ ChooseEnvName
    \/ ChooseEnvNameBase
    \/ EnvNameEntered
    \/ CreateEnv
    \/ PipInstall
    \/ AlgorithmsEntered
    \/ AlgorithmAnswered
    \/ ChooseAdditionalDependencies
    \/ DependenciesAnswered
    \/ EnsurePip
    \/ PipInstallPackage
    \/ PostInstall
    \/ PostInstallPurge

Spec == Init /\ [][Next]_vars

\* The resolver alone, find_env_manager to the end of check_env_manager_version, on
\* every search path and disk.
NextResolve ==
    \/ FindEnvManager
    \/ InstallChoiceEntered
    \/ InputRejected
    \/ InstallDownload
    \/ InstallRun
    \/ SetupEnvManager
    \/ SetupEnvManagerSecondChannel
    \/ CheckEnvManagerVersion
    \/ CompareVersion

SpecResolve == InitResolve /\ [][NextResolve]_vars

\* The whole program, from main on, with interruptions.
InitMain ==
    /\ path_execs \in SUBSET Executables
    /\ files \in SUBSET ActivationScripts
    /\ path_execs \subseteq ReadByDetection(path_execs, files).execs
    /\ files \subseteq ReadByDetection(path_execs, files).scripts
    /\ envs \in { e \in SUBSET Names : Cardinality(e) <= MaxEnvs }
    /\ (path_execs = { } /\ files = { }) => envs = { }
    /\ isatty \in BOOLEAN
    /\ stdin = << >>
    /\ dry_run \in BOOLEAN
    /\ pc = "main"
    /\ InitInstaller
    /\ ver_present = << >> /\ ver_required = << >> /\ ver_verdict = "none"

NextMain ==
    \/ Main
    \/ CheckRequirements
    \/ CheckRequirementsSecondCompiler
    \/ CheckAlgorithmsSelection
    \/ KeyboardInterrupt
    \/ Next

SpecMain == InitMain /\ [][NextMain]_vars

\* ---------------------------------------------------- request_input alone

\* request_input as a function: called with some options, allow_any and validator,
\* on a terminal or not, it raises, asks again or returns a line.
OptionSets ==
    { { }, { Word("y"), Word("n") }, { Word("all"), Word("none"), Word("select") },
      InstallableNames, Names }

InitInput ==
    /\ isatty \in BOOLEAN
    /\ existing_names \in SUBSET Names
    /\ cli_selection = NoSelection
    /\ \E options \in OptionSets, allow_any \in BOOLEAN, validator \in { "none", "check_env_name" } :
          req = [ caller |-> "caller", prompt |-> "prompt", options |-> options,
                  allow_any |-> allow_any, validator |-> validator, rejected |-> 0 ]
    /\ pc = "call_request_input"
    /\ path_execs = { } /\ files = { } /\ envs = { } /\ stdin = << >>
    /\ dry_run = FALSE
    /\ env_manager = NoManager /\ env_manager_preinitialized = FALSE /\ env_name = << >>
    /\ err = NoError /\ cmds = << >>
    /\ name_to_install = None /\ to_install = NoManager /\ todo = << >>
    /\ ver_present = << >> /\ ver_required = << >> /\ ver_verdict = "none"

\* The call.
CallRequestInput ==
    /\ pc = "call_request_input"
    /\ request_input(req.caller, req.prompt, req.options, req.allow_any, req.validator)
    /\ UNCHANGED <<environment, installer, cmds, name_to_install, to_install,
                   existing_names, cli_selection, todo, version_vars>>

\* `return result`: the line that ended the loop.
InputReturned ==
    /\ pc = "request_input" /\ req.caller = "caller"
    /\ \E line \in Lines(req.options) :
          /\ Accepted(line)
          /\ req' = [ caller |-> "returned", result |-> line, options |-> req.options,
                      allow_any |-> req.allow_any, validator |-> req.validator,
                      rejected |-> req.rejected ]
    /\ pc' = "returned"
    /\ UNCHANGED <<environment, installer, err, cmds, name_to_install, to_install,
                   existing_names, cli_selection, todo, version_vars>>

NextInput ==
    \/ CallRequestInput
    \/ InputRejected
    \/ InputReturned

SpecInput == InitInput /\ [][NextInput]_vars

\* ------------------------------------------- the loop of request_input

\* The loop of request_input on the lines the operator enters, in the order they
\* are entered; when they are used up, input() waits.
LineSequences(options) == UNION { [1 .. n -> Lines(options)] : n \in 0 .. MaxLines }

InitLoop ==
    /\ isatty \in BOOLEAN
    /\ existing_names \in SUBSET Names
    /\ cli_selection = NoSelection
    /\ \E options \in OptionSets, allow_any \in BOOLEAN, validator \in { "none", "check_env_name" } :
          /\ req = [ caller |-> "caller", prompt |-> "prompt", options |-> options,
                     allow_any |-> allow_any, validator |-> validator, rejected |-> 0 ]
          /\ stdin \in LineSequences(options)
    /\ pc = "call_request_input"
    /\ path_execs = { } /\ files = { } /\ envs = { }
    /\ dry_run = FALSE
    /\ env_manager = NoManager /\ env_manager_preinitialized = FALSE /\ env_name = << >>
    /\ err = NoError /\ cmds = << >>
    /\ name_to_install = None /\ to_install = NoManager /\ todo = << >>
    /\ ver_present = << >> /\ ver_required = << >> /\ ver_verdict = "none"

\* A loop that asks again only when both checks fail: `and` written for `or`.
AskIfBothFail(line) == ~ default_validation(line) /\ ~ extra_validation(line)

\* `ask` after a line was read.
ask(line) == ~ default_validation(line) \/ ~ extra_validation(line)

\* One pass of the loop: a line is read and checked; the loop goes on or ends, and
\* then the line is returned.  req.rejected counts the lines read so far.
ReadLine ==
    /\ pc = "request_input" /\ req.caller = "caller"
    /\ req.rejected < Len(stdin)
    /\ LET result == stdin[req.rejected + 1] IN
          IF ask(result)
          THEN /\ req' = [ req EXCEPT !.rejected = @ + 1 ]
               /\ pc' = pc
          ELSE /\ req' = [ caller |-> "returned", result |-> result, options |-> req.options,
                           allow_any |-> req.allow_any, validator |-> req.validator,
                           rejected |-> req.rejected ]
               /\ pc' = "returned"
    /\ UNCHANGED <<environment, installer, err, cmds, name_to_install, to_install,
                   existing_names, cli_selection, todo, version_vars>>

NextLoop ==
    \/ CallRequestInput
    \/ ReadLine

\* The interpreter goes on while it can: it is not stopped from outside.
SpecLoop == InitLoop /\ [][NextLoop]_vars /\ WF_vars(NextLoop)

\* ---------------------------------------------- run_env_manager_cmd alone

\* run_env_manager_cmd as a method: called on an Installer whose env_manager is any
\* variant, on any search path and disk.
InitDispatch ==
    /\ env_manager \in Variants
    /\ path_execs \in SUBSET Executables
    /\ files \in SUBSET ActivationScripts
    /\ env_manager_preinitialized = InPath(Manager.executable)
    /\ dry_run \in BOOLEAN
    /\ pc = "call_run_env_manager_cmd"
    /\ envs = { } /\ isatty = FALSE /\ stdin = << >> /\ env_name = << >>
    /\ err = NoError /\ cmds = << >>
    /\ name_to_install = None /\ to_install = NoManager
    /\ existing_names = { } /\ cli_selection = NoSelection /\ req = NoRequest /\ todo = << >>
    /\ ver_present = << >> /\ ver_required = << >> /\ ver_verdict = "none"

\* The call, with the version command as `cmd`.
CallRunEnvManagerCmd ==
    /\ pc = "call_run_env_manager_cmd"
    /\ run_env_manager_cmd(version_cmd, << >>, dry_run, "returned")
    /\ UNCHANGED <<environment, installer, locals, version_vars>>

SpecDispatch == InitDispatch /\ [][CallRunEnvManagerCmd]_vars

\* ------------------------------------------------- the version comparison

\* The comparison of check_env_manager_version on its own: a present and a required
\* version, each some fields, are written as text and compared as the code compares.
FieldValues == { 0, 2, 9, 10 }
Versions == UNION { [1 .. n -> FieldValues] : n \in 1 .. MaxFields }

DigitOf(d) == CHOOSE c \in Digits : DigitValue(c) = d

\* A number in decimal.
RECURSIVE NumberText(_)
NumberText(n) ==
    IF n < 10 THEN <<DigitOf(n)>> ELSE NumberText(n \div 10) \o <<DigitOf(n % 10)>>

\* The fields, in decimal, with dots between them.
RECURSIVE VersionText(_)
VersionText(fields) ==
    IF Len(fields) = 1 THEN NumberText(fields[1])
    ELSE NumberText(Head(fields)) \o <<".">> \o VersionText(Tail(fields))

InitVersion ==
    /\ ver_present \in Versions
    /\ ver_required \in Versions
    /\ ver_verdict = "none"
    /\ path_execs = { } /\ files = { } /\ envs = { }
    /\ isatty = FALSE /\ stdin = << >> /\ dry_run = FALSE
    /\ pc = "compare_version"
    /\ InitInstaller

\* Lines 559 to 573 on the two texts.
CompareVersionTexts ==
    /\ ver_verdict = "none"
    /\ ver_verdict' = IF OutOfDate(VersionText(ver_present), VersionText(ver_required))
                      THEN "out_of_date" ELSE "ok"
    /\ UNCHANGED <<environment, installer, pc, err, cmds, locals, ver_present, ver_required>>

SpecVersion == InitVersion /\ [][CompareVersionTexts]_vars

\* ------------------------------------------------------------- properties

\* The commands of the log, by what they do.
Issued(kinds) == { i \in 1 .. Len(cmds) : cmds[i].cmd.kind \in kinds }

CreationKinds == { "env create" }
InstallationKinds == { "ensurepip", "pip install" }
\* Commands that only report: they change nothing on the system.
ReadOnlyKinds == { "--version", "env list --json", "info --base --json" }

\* A call of the version command from which check_env_manager_version returned
\* without an error: the command returned 0 and either the check was simulated or
\* the captured output is a version that is not out of date.
VersionCheckPassed(call) ==
    /\ call.cmd.kind = "--version"
    /\ call.returncode = 0
    /\ \/ call.as_comment
       \/ VersionVerdict(Manager.executable, call.stdout) = "ok"

\* C1: every environment-creation command and every package-installation command
\* of a run comes after a version command of the same run from which
\* check_env_manager_version returned without an error.
C1_VersionCheckedBeforeCreation ==
    Issued(CreationKinds \cup InstallationKinds) # { } =>
        \E j \in Issued({ "--version" }) :
            /\ \A i \in Issued(CreationKinds \cup InstallationKinds) : j < i
            /\ VersionCheckPassed(cmds[j])

\* A run that has created the environment after a live version check.
C1_Witness ==
    /\ pc = "pip_install"
    /\ Issued(CreationKinds) # { }
    /\ \E j \in Issued({ "--version" }) : ~ cmds[j].as_comment

\* C2: with --dry-run, every command issued is commented out, read-only or carries
\* the manager's own --dry-run flag, and neither the disk nor the environments
\* change.  (The source violates it: post_install with --clean.)
C2_DryRunChangesNothing ==
    dry_run =>
        \A i \in 1 .. Len(cmds) :
            \/ cmds[i].as_comment
            \/ cmds[i].cmd.kind \in ReadOnlyKinds
            \/ cmds[i].cmd.dry_run_flag

\* C3: a run at the environment-creation step has chosen a name that no existing
\* environment bears.  (The source violates it: a manager found through its
\* activation script only, and names compared by their stem.)
C3_ChosenNameIsNew ==
    pc = "create_env" => env_name \notin envs

\* The reading of "detectable", written on the environment alone.
Detectable(i) ==
    \/ ENV_MANAGER_INFO[i].executable \in path_execs
    \/ /\ ENV_MANAGER_INFO[i].activation_script # NoPath
       /\ ENV_MANAGER_INFO[i].activation_script \in files

\* The detectable variant declared first; NoManager when there is none.
LeastDetectable ==
    IF \E i \in Variants : Detectable(i)
    THEN CHOOSE i \in Variants : Detectable(i) /\ \A j \in 1 .. (i - 1) : ~ Detectable(j)
    ELSE NoManager

\* C4: the detection step of find_env_manager leaves selected the detectable variant
\* declared first in ENV_MANAGER_INFO, a function of which variants are detectable
\* and of nothing else.
C4_FirstDeclaredSelected ==
    [][pc = "find_env_manager" => env_manager' = LeastDetectable]_vars

\* mamba is selected through its activation script although conda, declared later,
\* is on the search path.
C4_Witness ==
    /\ pc = "setup_env_manager"
    /\ env_manager = 2
    /\ ~ in_path(path_execs, 2)
    /\ Detectable(3) /\ Detectable(4)

\* C5: the detection step selects a variant exactly when some variant is detectable,
\* the selected variant is detectable, and env_manager_preinitialized is left true
\* exactly when the executable of the selected variant is on the search path.
C5_DetectedAndPreinitialized ==
    [][pc = "find_env_manager" =>
          /\ (env_manager' # NoManager) <=> (\E i \in Variants : Detectable(i))
          /\ env_manager' # NoManager => Detectable(env_manager')
          /\ env_manager_preinitialized' <=>
                /\ env_manager' # NoManager
                /\ ENV_MANAGER_INFO[env_manager'].executable \in path_execs]_vars

\* miniconda is detected through its activation script only.
C5_Witness ==
    /\ pc = "setup_env_manager"
    /\ env_manager = 3
    /\ ~ env_manager_preinitialized
    /\ ENV_MANAGER_INFO[3].activation_script \in files

\* The positions of find_env_manager from install_env_manager on.
InstallSteps == { "install_env_manager", "install_run" }
SetupSteps == { "setup_env_manager", "setup_env_manager_2" }
VersionSteps == { "check_env_manager_version", "compare_version" }

\* C6: initialization and version checking never run with no manager chosen; with
\* none detected the run is at the prompt for a variant, in install_env_manager
\* with an installable variant, or ended by an error.
C6_NoManagerNeverUsed ==
    /\ pc \in SetupSteps \cup VersionSteps => env_manager # NoManager
    /\ pc \in InstallSteps =>
          /\ to_install \in Variants
          /\ ENV_MANAGER_INFO[to_install].installable
    /\ (pc # "find_env_manager" /\ env_manager = NoManager) =>
          \/ pc = "request_input" /\ req.caller = "find_env_manager"
          \/ pc \in InstallSteps
          \/ pc = "exit" /\ err # NoError

\* Nothing was detectable, the operator chose at the prompt, and install_env_manager
\* is entered.
C6_Witness ==
    /\ pc = "install_env_manager"
    /\ env_manager = NoManager
    /\ path_execs = { } /\ files = { }
    /\ isatty
    /\ ENV_MANAGER_INFO[to_install].installable

\* C7: when a variant is detectable and --install-conda names a variant,
\* find_env_manager ends the run with the already-installed error, which names the
\* requested variant and the manager already present (by its executable), and no
\* command has been issued.
C7_AlreadyInstalledFirst ==
    [][(/\ pc = "find_env_manager"
        /\ \E i \in Variants : Detectable(i)
        /\ name_to_install' # None)
       => /\ pc' = "exit"
          /\ err'.type = "AlreadyInstalled"
          /\ err'.info.to_install = name_to_install'
          /\ err'.info.already_installed = ENV_MANAGER_INFO[LeastDetectable].executable
          /\ cmds' = << >>]_vars

\* The error for a manager that was found through its activation script only.
C7_Witness ==
    /\ pc = "exit"
    /\ err.type = "AlreadyInstalled"
    /\ err.info.to_install = "mamba"
    /\ err.info.already_installed = "conda"
    /\ err.info.exists_without_path
    /\ cmds = << >>

\* Field-wise numeric order on versions given as fields: the first field in which
\* they differ decides; a version that is the other's beginning is the older one.
Older(present, required) ==
    \E k \in 1 .. (Len(required)) :
        /\ \A j \in 1 .. (k - 1) : j <= Len(present) /\ present[j] = required[j]
        /\ \/ k = Len(present) + 1
           \/ k <= Len(present) /\ present[k] < required[k]

\* C8: the comparison of check_env_manager_version raises the out-of-date error
\* exactly when the present version is older than the required one in the
\* field-wise numeric order of their components, and passes otherwise.
C8_OutOfDateIffOlder ==
    ver_verdict # "none" =>
        (ver_verdict = "out_of_date" <=> Older(ver_present, ver_required))

\* 2.10.0 against a required 2.9.9 passes.
C8_Witness ==
    /\ ver_present = <<2, 10, 0>>
    /\ ver_required = <<2, 9, 9>>
    /\ ver_verdict = "ok"

\* The commands of find_env_manager when it installs miniconda.
MinicondaOrder == <<"fetch", "installer", "tos accept", "tos accept", "--version">>

\* C9: in a run that is not simulated and installs miniconda, the commands are the
\* download, the installer, the initialization and the version query, in that
\* order and all live; the version is compared with 23.5.0; a reported 23.4.0 ends
\* the run with the out-of-date error and a reported 23.5.0 lets it go on.
C9_InstallThenCheck ==
    (~ dry_run /\ to_install = VariantNamed("miniconda")) =>
        /\ \A i \in 1 .. Len(cmds) :
              /\ i <= Len(MinicondaOrder) => cmds[i].cmd.kind = MinicondaOrder[i]
              /\ ~ cmds[i].as_comment
        /\ pc \in SetupSteps \cup VersionSteps => env_manager = to_install
        /\ pc = "compare_version" => Len(cmds) = Len(MinicondaOrder)
        /\ err.type = "OutOfDate" => err.info.required = V_23_5_0
        /\ (/\ Len(cmds) >= Len(MinicondaOrder)
            /\ cmds[Len(MinicondaOrder)].returncode = 0
            /\ pc # "compare_version") =>
              LET reported == cmds[Len(MinicondaOrder)].stdout IN
              /\ reported = CondaSays(V_23_4_0) =>
                    /\ pc = "exit"
                    /\ err.type = "OutOfDate"
                    /\ err.info.present = V_23_4_0
                    /\ Len(cmds) = Len(MinicondaOrder)
              /\ reported = CondaSays(V_23_5_0) =>
                    /\ err.type # "OutOfDate"
                    /\ err # Uncaught("ValueError")

\* miniconda was installed, reported 23.5.0, and the run is past the version check.
C9_Witness ==
    /\ ~ dry_run
    /\ to_install = VariantNamed("miniconda")
    /\ name_to_install = "miniconda"
    /\ Len(cmds) = Len(MinicondaOrder)
    /\ cmds[Len(cmds)].stdout = CondaSays(V_23_5_0)
    /\ pc = "choose_env_name"

\* C10: in a simulated run that installs a manager because none was detected, the
\* version command is a comment, no output is read or compared, and the run never
\* ends with the out-of-date error.
C10_SimulatedCheckSkipped ==
    (dry_run /\ to_install # NoManager) =>
        /\ \A i \in Issued({ "--version" }) : cmds[i].as_comment /\ cmds[i].stdout = << >>
        /\ pc # "compare_version"
        /\ err.type # "OutOfDate"
        /\ err # Uncaught("ValueError")

\* A simulated installation is past check_env_manager_version.
C10_Witness ==
    /\ dry_run
    /\ to_install # NoManager
    /\ Issued({ "--version" }) # { }
    /\ pc = "choose_env_name"

\* The stages of Installer.run, in the order of its calls.
Stages == <<"find_env_manager", "choose_env_name", "create_env", "pip_install", "post_install">>

\* The stage a position belongs to, as an index into Stages: 0 before Installer.run,
\* Len(Stages) + 1 after it.  A prompt belongs to the stage of its caller.
StageAt(position, request) ==
    CASE position \in PreRunSteps -> 0
      [] position \in { "find_env_manager" } \cup InstallSteps \cup SetupSteps \cup VersionSteps -> 1
      [] position \in { "choose_env_name", "choose_env_name_base" } -> 2
      [] position = "create_env" -> 3
      [] position \in { "pip_install", "choose_additional_dependencies", "ensurepip",
                        "pip_install_package" } -> 4
      [] position \in { "post_install", "post_install_purge" } -> 5
      [] position = "request_input" ->
            (CASE request.caller = "find_env_manager" -> 1
               [] request.caller = "choose_env_name" -> 2
               [] OTHER -> 4)
      [] OTHER -> Len(Stages) + 1

\* C11: every step of a run stays in its stage or enters the next one, so the stages
\* run at most once each and in the order of Stages; a command that fails and an
\* error that is raised end the run, and nothing runs after the end.
C11_StagesOneShotInOrder ==
    [][/\ pc \notin { "exit", "done" }
       /\ pc' # "exit" =>
             /\ StageAt(pc', req') \in { StageAt(pc, req), StageAt(pc, req) + 1 }
             /\ err' = NoError
             /\ \A i \in 1 .. Len(cmds') : cmds'[i].returncode = 0
       /\ pc' = "exit" => err' # NoError]_vars

\* A run that went through all five stages, the last with its commands.
C11_Witness ==
    /\ pc = "done"
    /\ err = NoError
    /\ Issued({ "pip cache purge" }) # { }
    /\ Issued(CreationKinds) # { }

\* C12: no run ends with an exception that nothing catches; every abnormal end is a
\* RAILInstallationError, with its formatted message.  (The source violates it:
\* int() and rindex on the version output, os.environ["SHELL"], json.loads.)
C12_NoUncaughtException ==
    pc = "exit" => err.type # "Uncaught"

\* C13: a call of run_cmd whose process returns 0 returns to its caller; one whose
\* process returns another code raises the execution error, and the process ends
\* with that code.
C13_ReturnsIffZero ==
    [][Len(cmds') > Len(cmds) =>
          LET call == cmds'[Len(cmds')] IN
          /\ Len(cmds') = Len(cmds) + 1
          /\ call.returncode # 0 =>
                /\ pc' = "exit"
                /\ err'.type = "ExecutionError"
                /\ err'.return_code = call.returncode
          /\ call.returncode = 0 => err'.type # "ExecutionError"]_vars

\* A command of the package stage returned 127, and so does the process.
C13_Witness ==
    /\ pc = "exit"
    /\ err.type = "ExecutionError"
    /\ err.return_code = 127
    /\ cmds[Len(cmds)].cmd.kind = "pip install"
    /\ cmds[Len(cmds)].returncode = 127

\* C14: a process that ends on a fatal condition ends with a code other than 0, and
\* with 127 only for missing prerequisites or for a command whose shell returned
\* 127, the code a shell gives for a command it does not find.
C14_NonZeroAnd127Reserved ==
    pc = "exit" =>
        /\ err # NoError
        /\ err.return_code # 0
        /\ err.return_code = 127 =>
              \/ err.type = "MissingPrerequisites"
              \/ /\ err.type = "ExecutionError"
                 /\ cmds # << >>
                 /\ cmds[Len(cmds)].returncode = 127
                 /\ ~ cmds[Len(cmds)].as_comment

\* The prerequisites are missing and the process ends with 127.
C14_Witness ==
    /\ pc = "exit"
    /\ err = MissingPrerequisites
    /\ err.return_code = 127
    /\ cmds = << >>

\* C15: a line request_input returns is one of the options unless allow_any was
\* given, and is one the validator accepts when there is a validator, after any
\* lines that were rejected.
C15_ReturnedLineIsValid ==
    pc = "returned" =>
        /\ ~ req.allow_any => req.result \in req.options
        /\ req.validator = "check_env_name" => ~ (\E e \in existing_names : e = req.result)

\* A line was rejected, then an option the validator accepts was returned.
C15_Witness ==
    /\ pc = "returned"
    /\ ~ req.allow_any
    /\ req.validator = "check_env_name"
    /\ req.options = Names
    /\ existing_names # { }
    /\ req.rejected > 0

\* C16: off a terminal, request_input raises the non-interactive-input error: it
\* reads no line and returns nothing.
C16_NoTerminalNoInput ==
    ~ isatty =>
        /\ pc \in { "call_request_input", "exit" }
        /\ pc = "exit" => err.type = "NonInteractiveInput" /\ err.info = <<req.prompt>>
        /\ req.caller # "returned"
        /\ req.rejected = 0

\* The error, although there were options to pick from.
C16_Witness ==
    /\ ~ isatty
    /\ pc = "exit"
    /\ err.type = "NonInteractiveInput"
    /\ req.options # { }

\* The names check_env_name is tried on.
TriedNames == Names \cup { EmptyLine, Word("maybe") }

\* C18: check_env_name returns false for every name that is among the existing
\* names and true for every name that is not.
C18_RejectsExactlyMembers ==
    \A name \in TriedNames :
        check_env_name(name, existing_names) <=> (\A e \in existing_names : e # name)

\* analysis exists, analysis.v2 does not: the first was refused, the second returned.
C18_Witness ==
    /\ pc = "returned"
    /\ req.validator = "check_env_name"
    /\ req.allow_any
    /\ existing_names = { <<"analysis">> }
    /\ req.result = <<"analysis", "v2">>
    /\ ~ check_env_name(<<"analysis">>, existing_names)

\* The values --rail-packages gives choose_algorithms.
CommandLineRailValues == { r.kind : r \in RailSelections } \ { None }

\* C17: the run is at a prompt of request_input only for a choice the command line
\* did not make; so with --install-conda, --env-name, --rail-packages and
\* --install-devtools all given, request_input is never called.  (The prompts for
\* single packages follow the answer "select", which no command line gives.)
C17_PromptsOnlyForMissingChoices ==
    pc = "request_input" =>
        CASE req.caller = "find_env_manager" -> name_to_install = None
          [] req.caller = "choose_env_name" -> cli_selection = Selection("--env-name", None)
          [] req.caller = "choose_algorithms" -> cli_selection = Selection("--rail-packages", None)
          [] req.caller = "choose_algorithms.select" ->
                /\ cli_selection = Selection("--rail-packages", "select")
                /\ cli_selection.value \notin CommandLineRailValues
          [] req.caller = "choose_additional_dependencies" ->
                cli_selection = Selection("--install-devtools", None)
          [] OTHER -> FALSE

\* Off a terminal, where any prompt would have ended the run, a run that was asked
\* to install a manager is complete.
C17_Witness ==
    /\ pc = "done"
    /\ ~ isatty
    /\ name_to_install # None
    /\ env_name \in Names
    /\ Issued(InstallationKinds) # { }

\* C19: a KeyboardInterrupt during a stage of Installer.run never ends the process
\* as an uncaught exception; it ends it with the "Aborting." error, a code other
\* than 0, and no further command.
C19_InterruptAborts ==
    [][/\ StageAt(pc, req) \in 1 .. Len(Stages) => err' # Interrupted
       /\ (err' = Aborting /\ err # Aborting) =>
             /\ StageAt(pc, req) \in 1 .. Len(Stages)
             /\ pc' = "exit"
             /\ err'.type # "Uncaught"
             /\ err'.return_code # 0
             /\ cmds' = cmds
             /\ envs' = envs /\ files' = files]_vars

\* The run was interrupted at the prompts of the package stage, after the
\* environment was created.
C19_Witness ==
    /\ pc = "exit"
    /\ err = Aborting
    /\ Issued(CreationKinds) # { }
    /\ Issued(InstallationKinds) = { }
    /\ req # NoRequest

\* C20: env_manager_preinitialized is written by the detection step only, and
\* env_manager by the detection step and by the install step, which replaces it
\* with the variant it installed; the stages after find_env_manager write neither.
C20_ManagerWrittenByResolutionOnly ==
    [][/\ env_manager_preinitialized' # env_manager_preinitialized => pc = "find_env_manager"
       /\ env_manager' # env_manager =>
             \/ pc = "find_env_manager"
             \/ pc = "install_run" /\ env_manager' = to_install
       /\ StageAt(pc, req) > 1 =>
             /\ env_manager' = env_manager
             /\ env_manager_preinitialized' = env_manager_preinitialized]_vars

\* A manager was installed, and the run is complete with it as the install step
\* left it.
C20_Witness ==
    /\ pc = "done"
    /\ to_install # NoManager
    /\ env_manager = to_install
    /\ ~ env_manager_preinitialized
    /\ Issued({ "installer" }) # { }

\* C21: after a call of run_env_manager_cmd, with no activation script and the
\* executable on the search path the command was run as it is; with an activation
\* script the command was run after sourcing that script; with no activation script
\* and the executable absent nothing was run and the call ended with the fatal
\* configuration error.
C21_DispatchOnManager ==
    pc # "call_run_env_manager_cmd" =>
        LET script == ENV_MANAGER_INFO[env_manager].activation_script
            on_path == ENV_MANAGER_INFO[env_manager].executable \in path_execs
        IN  /\ (script = NoPath /\ on_path) =>
                  /\ Len(cmds) = 1
                  /\ cmds[1].cmd = version_cmd
                  /\ cmds[1].source = NoPath
                  /\ err.type # "FatalConfiguration"
            /\ script # NoPath =>
                  /\ Len(cmds) = 1
                  /\ cmds[1].cmd = version_cmd
                  /\ cmds[1].source = script
                  /\ err.type # "FatalConfiguration"
            /\ (script = NoPath /\ ~ on_path) =>
                  /\ cmds = << >>
                  /\ pc = "exit"
                  /\ err.type = "FatalConfiguration"

\* micromamba, which has no activation script, is not on the search path.
C21_Witness ==
    /\ pc = "exit"
    /\ err.type = "FatalConfiguration"
    /\ ENV_MANAGER_INFO[env_manager].activation_script = NoPath
    /\ ENV_MANAGER_INFO[env_manager].executable \notin path_execs
    /\ cmds = << >>

\* C22: in a run whose search path and disk change only by what the run itself
\* does, the manager in use has an activation script or its executable is on the
\* search path, so no run ends with the fatal configuration error.
C22_FatalConfigurationUnreachable ==
    /\ err.type # "FatalConfiguration"
    /\ env_manager # NoManager =>
          \/ ENV_MANAGER_INFO[env_manager].activation_script # NoPath
          \/ ENV_MANAGER_INFO[env_manager].executable \in path_execs

\* micromamba, the variant without an activation script, ran every command of a
\* complete run directly.
C22_Witness ==
    /\ pc = "done"
    /\ ENV_MANAGER_INFO[env_manager].activation_script = NoPath
    /\ Issued(InstallationKinds) # { }
    /\ \A i \in 1 .. Len(cmds) : cmds[i].source = NoPath

\* The commands of install_env_manager, in order.
InstallOrder == <<"fetch", "installer">>

\* The command a step has just issued.
JustIssued == cmds'[Len(cmds')]

\* C23: in a run that is not simulated, install_env_manager makes the directory and
\* downloads the installer into it, then runs the installer with the options of the
\* variant, then deletes the installer and sets env_manager; a download or an
\* installer that fails ends the run with the execution error and its code, with
\* nothing removed from the disk, the installer where it was, and env_manager unset.
C23_InstallSteps ==
    [][(~ dry_run /\ pc \in InstallSteps /\ Len(cmds') > Len(cmds)) =>
          /\ Len(cmds') <= Len(InstallOrder)
          /\ JustIssued.cmd.kind = InstallOrder[Len(cmds')]
          /\ ~ JustIssued.as_comment
          /\ JustIssued.source = NoPath
          /\ ENV_MANAGER_INFO[to_install].directory \in files'
          /\ JustIssued.cmd.kind = "fetch" =>
                /\ JustIssued.cmd.args = <<ENV_MANAGER_INFO[to_install].installer_link>>
                /\ JustIssued.returncode = 0 => installer_path \in files'
          /\ JustIssued.cmd.kind = "installer" =>
                /\ JustIssued.cmd.args = ENV_MANAGER_INFO[to_install].installer_options
                /\ installer_path \in files
          /\ (JustIssued.cmd.kind = "installer" /\ JustIssued.returncode = 0) =>
                /\ installer_path \notin files'
                /\ env_manager' = to_install
                /\ pc' \in SetupSteps
          /\ JustIssued.returncode # 0 =>
                /\ pc' = "exit"
                /\ err' = ExecutionError(JustIssued.returncode)
                /\ files \subseteq files'
                /\ env_manager' = NoManager]_vars

\* The download succeeded and the installer failed: the run is over, the installer
\* is still there and no manager is set.
C23_Witness ==
    /\ ~ dry_run
    /\ pc = "exit"
    /\ err.type = "ExecutionError"
    /\ Len(cmds) = Len(InstallOrder)
    /\ cmds[1].returncode = 0
    /\ cmds[2].cmd.kind = "installer"
    /\ installer_path \in files
    /\ env_manager = NoManager

\* The calls of a log that install: ensurepip and the pip install commands.
InstallCalls(log) == SelectSeq(log, LAMBDA call : call.cmd.kind \in InstallationKinds)

\* The packages of each command of a list of pip commands.
PackagesOf(commands) == [ i \in 1 .. Len(commands) |-> commands[i].args ]

\* One command for each package of a list.
OneEach(packages) == [ i \in 1 .. Len(packages) |-> <<packages[i]>> ]

\* The positions at which pip_install has issued all its commands.
AfterPipInstall == { "post_install", "post_install_purge", "done" }

C25_HintUnless127 ==
    err.type = "ExecutionError" =>
        /\ cmds # << >>
        /\ cmds[Len(cmds)].returncode # 0
        /\ err.info = <<TRUE>> <=> cmds[Len(cmds)].returncode # 127
        /\ err.info = <<FALSE>> <=> cmds[Len(cmds)].returncode = 127

\* The environment could not be created because the manager was not found by the
\* shell: 127, and no hint.
C25_Witness ==
    /\ pc = "exit"
    /\ err.type = "ExecutionError"
    /\ cmds[Len(cmds)].cmd.kind = "env create"
    /\ cmds[Len(cmds)].returncode = 127
    /\ err.info = <<FALSE>>

\* Whether the line entered at a position passes the default check and the validator.
Passes(position) == default_validation(stdin[position]) /\ extra_validation(stdin[position])

\* C26: on a terminal, request_input returns exactly when one of the lines entered
\* passes the default check and the validator, and it returns the first that
\* does; every line before it was asked for again, however many there are, and
\* when no line passes the function is still asking after the last.
C26_ReturnsFirstValidLine ==
    /\ [](isatty =>
            /\ pc = "request_input" => \A j \in 1 .. req.rejected : ~ Passes(j)
            /\ pc = "returned" =>
                  /\ req.rejected + 1 \in 1 .. Len(stdin)
                  /\ req.result = stdin[req.rejected + 1]
                  /\ Passes(req.rejected + 1)
                  /\ \A j \in 1 .. req.rejected : ~ Passes(j))
    /\ (isatty /\ \E j \in 1 .. Len(stdin) : Passes(j)) ~> (pc = "returned")
    /\ (isatty /\ \A j \in 1 .. Len(stdin) : ~ Passes(j))
          ~> (pc = "request_input" /\ req.rejected = Len(stdin))

\* The first line named an existing environment and was asked for again; the second
\* was returned.
C26_Witness ==
    /\ pc = "returned"
    /\ req.rejected = 1
    /\ req.validator = "check_env_name"
    /\ stdin[1] \in existing_names
    /\ req.result = stdin[2]

\* C27: every variant of the registry has an activation script exactly when it has
\* a directory, and then the script is bin/activate under that directory; every
\* installable variant has a directory, an installer link and installer options.
\* The manager in use and the variant to install are variants of the registry, the
\* second an installable one.
C27_RegistryWellFormed ==
    \A i \in Variants \cup ({ env_manager, to_install } \ { NoManager }) :
        LET variant == ENV_MANAGER_INFO[i] IN
        /\ i = to_install => variant.installable
        /\ variant.activation_script = NoPath <=> variant.directory = NoPath
        /\ variant.directory # NoPath =>
              variant.activation_script = variant.directory \o <<"bin", "activate">>
        /\ variant.installable =>
              /\ variant.directory # NoPath
              /\ variant.installer_link # None
              /\ variant.installer_options # NoOptions

\* An installable variant was installed with its options into its directory, and
\* its activation script is where the registry says.
C27_Witness ==
    /\ pc = "setup_env_manager"
    /\ ~ dry_run
    /\ env_manager = to_install
    /\ ENV_MANAGER_INFO[env_manager].installable
    /\ cmds[Len(cmds)].cmd.args = ENV_MANAGER_INFO[env_manager].installer_options
    /\ ENV_MANAGER_INFO[env_manager].directory \in files
    /\ ENV_MANAGER_INFO[env_manager].directory \o <<"bin", "activate">> \in files

\* C28: every command that was run live after sourcing an activation script sourced
\* a script that is on the disk.  (The source violates it: a manager found on the
\* search path is given the activation script of the directory the registry
\* declares, which nothing has looked for.)
C28_SourcedScriptExists ==
    \A i \in 1 .. Len(cmds) :
        (~ cmds[i].as_comment /\ cmds[i].source # NoPath) => cmds[i].source \in files

\* C29: the version query is a comment only in a simulated run on a system where no
\* variant is detectable; with a manager present, found on the search path or by
\* its activation script, the query is run live and the run goes on to
\* choose_env_name only with a version that is not out of date.  (The source
\* violates it: a simulated run with a manager found by its activation script.)
C29_PresentManagerQueried ==
    \A i \in Issued({ "--version" }) :
        /\ cmds[i].as_comment => (dry_run /\ ~ \E v \in Variants : Detectable(v))
        /\ ((\E v \in Variants : Detectable(v)) /\ StageAt(pc, req) \in 2 .. Len(Stages)) =>
              VersionVerdict(Manager.executable, cmds[i].stdout) = "ok"

\* The commands choose_env_name issues.
NameQueries == { "env list --json", "info --base --json" }

\* C30: choose_env_name issues its two queries exactly when
\* env_manager_preinitialized is true, and then accepts a name exactly when no
\* environment bears it; when it is false it issues no command, refuses no name,
\* and accepts every supplied name and every line entered that is not empty.
\* (The source violates the second part: the listed environments are compared by
\* the stem of their path.)
C30_NameCheckedWhenPreinitialized ==
    [][StageAt(pc, req) = 2 =>
          /\ Len(cmds') > Len(cmds) =>
                /\ env_manager_preinitialized
                /\ JustIssued.cmd.kind \in NameQueries
                /\ ~ JustIssued.as_comment
          /\ (env_manager_preinitialized /\ pc \in { "choose_env_name", "choose_env_name_base" }) =>
                Len(cmds') > Len(cmds)
          /\ env_manager_preinitialized =>
                /\ pc' = "create_env" => env_name' \notin envs
                /\ err'.type = "NameConflict" => err'.info[1] \in envs
                /\ (pc' = "request_input" /\ pc # "request_input") => existing_names' = envs
          /\ ~ env_manager_preinitialized =>
                /\ cmds' = cmds
                /\ err'.type # "NameConflict"
                /\ pc' = "request_input" =>
                      /\ existing_names' = { }
                      /\ \A name \in Names \cup { Word("maybe") } :
                            check_env_name(name, existing_names')
          /\ pc' = "create_env" => env_name' # EmptyLine]_vars

\* The commands that change the system: the download and the run of the installer,
\* the initialization of the manager, the creation of the environment, the
\* installation of packages.
SideEffectKinds ==
    { "fetch", "installer", "tos accept", "shell init" } \cup CreationKinds \cup InstallationKinds

\* C31: a run that ended with the non-interactive-input error has run no command
\* that changes the system: each such command before the error was a comment or
\* carried the manager's --dry-run flag.  (The source violates it: the prompts for
\* the name and for the packages come after the manager was installed and
\* initialized and the environment created.)
C31_NoSideEffectBeforeNonInteractive ==
    (pc = "exit" /\ err.type = "NonInteractiveInput") =>
        \A i \in Issued(SideEffectKinds) : cmds[i].as_comment \/ cmds[i].cmd.dry_run_flag

====
